---------------------------- MODULE Spec2Model ----------------------------
(***************************************************************************)
(* A model of vgfx-cpp (src/main.cpp, src/vg.hpp, src/vg.cpp): one window, *)
(* one Renderer whose constructor builds the Vulkan objects in a fixed     *)
(* order, a frame loop that calls Renderer::draw() until the window is     *)
(* asked to close, and an explicit teardown.                               *)
(*                                                                         *)
(* std::uint32_t values are pairs <<hi, lo>> of 16-bit limbs, so that the  *)
(* 32-bit width (wrap-around of + 1, the UINT32_MAX sentinel) is kept.     *)
(***************************************************************************)
EXTENDS Integers, Sequences, FiniteSets, TLC

(***************************************************************************)
(* Bounds of the model.                                                    *)
(***************************************************************************)
\* longest enumerated adapter list in SpecAdapter
MaxAdapters == 2
\* image counts 0..MaxCount (and the values next to UINT32_MAX) in SpecImageCount
MaxCount == 5
\* longest supported present-mode list in SpecPresentMode
MaxModes == 3
\* successful draw() calls after which the window is asked to close
MaxDraws == 4
\* images the swapchain may create beyond the requested minimum
MaxExtraImages == 1

\* longest shader file, in bytes
MaxFileLen == 5

(***************************************************************************)
(* std::uint32_t as two 16-bit limbs.                                      *)
(***************************************************************************)
Limb == 2 ^ 16

U32Of(n) == <<n \div Limb, n % Limb>>

UINT32_MAX == <<Limb - 1, Limb - 1>>

U32Zero == <<0, 0>>

U32Lt(a, b) == a[1] < b[1] \/ (a[1] = b[1] /\ a[2] < b[2])

\* a + 1 in std::uint32_t arithmetic (wraps to 0 after UINT32_MAX)
U32Inc(a) ==
  IF a[2] + 1 < Limb THEN <<a[1], a[2] + 1>>
  ELSE <<(a[1] + 1) % Limb, 0>>

\* a - k for 0 <= k <= low limb range, used to name values next to UINT32_MAX
U32Back(a, k) == <<a[1], a[2] - k>>

\* the value of a small uint32 as a TLA+ integer (only for hi < 2^15)
U32Val(a) == a[1] * Limb + a[2]

\* static_cast<std::uint32_t>(int): the value modulo 2^32
CastU32(n) ==
  IF n >= 0 THEN U32Of(n)
  ELSE <<(Limb - 1) - ((-n - 1) \div Limb), (Limb - 1) - ((-n - 1) % Limb)>>

\* mutant: the upper bound is not applied
Clamp_NoUpper(v, lo, hi) == IF U32Lt(v, lo) THEN lo ELSE v

\* std::clamp(v, lo, hi) on std::uint32_t
Clamp(v, lo, hi) == IF U32Lt(v, lo) THEN lo ELSE IF U32Lt(hi, v) THEN hi ELSE v

Extent(w, h) == [width |-> w, height |-> h]

Range(s) == {s[i] : i \in 1..Len(s)}

SeqsUpTo(S, n) == UNION {[1..k -> S] : k \in 0..n}

(***************************************************************************)
(* The data of src/vg.hpp: SurfaceDetails, RenderGroup, and what a         *)
(* physical device reports to the queries of chooseRenderGroup.            *)
(***************************************************************************)
Caps(minc, maxc, cur, mine, maxe) ==
  [minImageCount |-> minc, maxImageCount |-> maxc, currentExtent |-> cur,
   minImageExtent |-> mine, maxImageExtent |-> maxe]

QF(g, p) == [graphics |-> g, present |-> p]

Adapter(type, formats, modes, qfams, caps) ==
  [deviceType |-> type, formats |-> formats, present_modes |-> modes,
   qfams |-> qfams, caps |-> caps]

Fmt(f, cs) == [format |-> f, colorSpace |-> cs]

BGRA8 == Fmt("B8G8R8A8Srgb", "SrgbNonlinear")

RGBA8 == Fmt("R8G8B8A8Unorm", "SrgbNonlinear")

NoFormat == Fmt("Undefined", "SrgbNonlinear")

\* getSurfaceDetails: the three surface queries of one physical device
getSurfaceDetails(phy_dev) ==
  [formats |-> phy_dev.formats, present_modes |-> phy_dev.present_modes,
   caps |-> phy_dev.caps]

NoExtent == Extent(U32Zero, U32Zero)

NoCaps == Caps(U32Zero, U32Zero, NoExtent, NoExtent, NoExtent)

\* a default-constructed RenderGroup (dev 0 is the null handle)
NoRenderGroup ==
  [dev |-> 0, qfam_idx |-> 0,
   surf_details |-> [formats |-> <<>>, present_modes |-> <<>>, caps |-> NoCaps]]

(***************************************************************************)
(* Renderer::chooseRenderGroup, as the two nested loops of the source.     *)
(* st = [rg, valid, returned]: the rend_group field, the local             *)
(* valid_groups vector, and whether the early return was taken.            *)
(***************************************************************************)
RECURSIVE ScanQFams(_, _, _, _)
ScanQFams(devs, d, i, st) ==
  IF i >= Len(devs[d].qfams) THEN st
  ELSE IF devs[d].qfams[i + 1].graphics /\ devs[d].qfams[i + 1].present
       THEN LET rg == [dev |-> d, qfam_idx |-> i,
                       surf_details |-> getSurfaceDetails(devs[d])]
            IN  IF devs[d].deviceType = "DiscreteGpu"
                THEN [rg |-> rg, valid |-> st.valid, returned |-> TRUE]
                ELSE ScanQFams(devs, d, i + 1,
                       [rg |-> rg, valid |-> Append(st.valid, rg),
                        returned |-> FALSE])
       ELSE ScanQFams(devs, d, i + 1, st)

\* mutant: adapters with empty format or present-mode lists are not skipped
RECURSIVE ScanDevices_NoSkip(_, _, _)
ScanDevices_NoSkip(devs, d, st) ==
  IF d > Len(devs) THEN st
  ELSE LET st2 == ScanQFams(devs, d, 0, st)
       IN  IF st2.returned THEN st2 ELSE ScanDevices_NoSkip(devs, d + 1, st2)

RECURSIVE ScanDevices(_, _, _)
ScanDevices(devs, d, st) ==
  IF d > Len(devs) THEN st
  ELSE IF devs[d].formats = <<>> \/ devs[d].present_modes = <<>>
       THEN ScanDevices(devs, d + 1, st)
       ELSE LET st2 == ScanQFams(devs, d, 0, st)
            IN  IF st2.returned THEN st2 ELSE ScanDevices(devs, d + 1, st2)

\* mutant: the fallback keeps the candidate seen last
FallbackGroup_Last(valid) == valid[Len(valid)]

\* the candidate the fallback takes: valid_groups[0]
FallbackGroup(valid) == valid[1]

\* [threw, rend_group]: whether "no suitable device group found" is thrown,
\* and the rend_group field when the function is left
chooseRenderGroup(devs, rg0) ==
  LET st == ScanDevices(devs, 1, [rg |-> rg0, valid |-> <<>>, returned |-> FALSE])
  IN  IF st.returned THEN [threw |-> FALSE, rend_group |-> st.rg]
      ELSE IF st.valid = <<>> THEN [threw |-> TRUE, rend_group |-> st.rg]
      ELSE [threw |-> FALSE, rend_group |-> FallbackGroup(st.valid)]

(***************************************************************************)
(* Renderer::chooseSurfaceFormat                                           *)
(***************************************************************************)
chooseSurfaceFormat(formats) ==
  LET hits == {i \in 1..Len(formats) :
                 formats[i].format = "B8G8R8A8Srgb"
                 /\ formats[i].colorSpace = "SrgbNonlinear"}
  IN  IF hits # {} THEN formats[CHOOSE i \in hits : \A j \in hits : i <= j]
      ELSE formats[1]

(***************************************************************************)
(* Renderer::chooseImageCount                                              *)
(***************************************************************************)
\* mutant: a maximum of 0 is taken as a bound, not as "no bound"
chooseImageCount_ZeroIsBound(caps) ==
  LET img_count0 == U32Inc(caps.minImageCount)
  IN  IF U32Lt(caps.maxImageCount, img_count0) THEN caps.maxImageCount
      ELSE img_count0

chooseImageCount(caps) ==
  LET img_count0 == U32Inc(caps.minImageCount)
  IN  IF caps.maxImageCount # U32Zero /\ U32Lt(caps.maxImageCount, img_count0)
      THEN caps.maxImageCount
      ELSE img_count0

(***************************************************************************)
(* Renderer::chooseSwapExtent; fb is glfwGetFramebufferSize's two ints.    *)
(***************************************************************************)
chooseSwapExtent(caps, fb) ==
  IF caps.currentExtent.width # UINT32_MAX THEN caps.currentExtent
  ELSE Extent(Clamp(CastU32(fb[1]), caps.minImageExtent.width,
                    caps.maxImageExtent.width),
              Clamp(CastU32(fb[2]), caps.minImageExtent.height,
                    caps.maxImageExtent.height))

(***************************************************************************)
(* Renderer::choosePresentMode: the scan returns at the first mailbox and  *)
(* otherwise remembers an immediate.                                       *)
(***************************************************************************)
\* mutant: the scan also stops at the first immediate
RECURSIVE ScanPresentModes_FirstMatch(_, _, _)
ScanPresentModes_FirstMatch(modes, i, ret) ==
  IF i > Len(modes) THEN ret
  ELSE IF modes[i] = "Mailbox" \/ modes[i] = "Immediate" THEN modes[i]
  ELSE ScanPresentModes_FirstMatch(modes, i + 1, ret)

RECURSIVE ScanPresentModes(_, _, _)
ScanPresentModes(modes, i, ret) ==
  IF i > Len(modes) THEN ret
  ELSE IF modes[i] = "Mailbox" THEN "Mailbox"
  ELSE IF modes[i] = "Immediate" THEN ScanPresentModes(modes, i + 1, modes[i])
  ELSE ScanPresentModes(modes, i + 1, ret)

choosePresentMode(modes) == ScanPresentModes(modes, 1, "Fifo")

(***************************************************************************)
(* The state: main()'s position, the environment main() runs in, the       *)
(* fields of Window and Renderer, the GPU queue, and history variables.    *)
(***************************************************************************)
VARIABLES
  pc,             \* the statement main()'s single thread executes next
  adapters,       \* inst.enumeratePhysicalDevices(), in enumeration order
  fb_size,        \* what glfwGetFramebufferSize reports
  m_window,       \* Window::m_window: "unset", "null", "valid", "destroyed"
  should_close,   \* the window's close flag (glfwWindowShouldClose)
  live,           \* the Vulkan objects created and not destroyed
  destroyed,      \* the Vulkan objects destroyed
  rend_group,     \* Renderer::rend_group
  format,         \* Renderer::format
  img_count,      \* Renderer::img_count (std::uint32_t)
  extent,         \* Renderer::extent
  swapchain,      \* the create info of Renderer::swapchain, or NoSwapchain
  images,         \* images.size()
  image_views,    \* image_views.size()
  framebuffers,   \* framebuffers.size()
  cmd_bufs,       \* Renderer::cmd_bufs: what each buffer has recorded
  image_available, \* per slot: the acquire's signal has not been waited for yet
  render_finished, \* per slot: 0 unsignaled, else 1 + the call whose submission signaled it
  frame_inflight, \* per frame slot: whether its fence is signaled
  image_inflight, \* per image: 0 (null) or the fence (slot + 1) stored
  frame_idx,      \* Renderer::frame_idx
  img_idx,        \* draw()'s local img_idx
  gpu_queue,      \* operations the graphics queue has not completed, oldest first
  error,          \* the exception that ended the program, or "none"
  draw_calls,     \* history: draw() invocations
  draws_done,     \* history: draw() invocations that returned
  entry_idx,      \* history: frame_idx when the current draw() was entered
  close_checks,   \* history: evaluations of glfwWindowShouldClose
  close_observed, \* history: the loop condition has seen the flag set
  destroy_calls,  \* history: Renderer::destroy() invocations
  submits,        \* history: gfx_q.submit calls that returned
  rendered,       \* history: <<image, slot>> of the latest submission into each image
  targets,        \* history: <<slot, image>> of each slot's latest submission
  presents_done,  \* history: present requests the queue has executed
  ops,            \* history: what the current draw() call has done so far
  shader_files,   \* the files shaders/vert.spv and shaders/frag.spv
  vert_code,      \* createPipeline's vert_code, as readFile returned it
  frag_code       \* createPipeline's frag_code

envVars == <<adapters, fb_size, shader_files>>

shaderVars == <<vert_code, frag_code>>

windowVars == <<m_window, should_close>>

objVars == <<live, destroyed>>

selVars == <<rend_group, format, img_count, extent>>

chainVars == <<swapchain, images, image_views, framebuffers, cmd_bufs>>

syncVars == <<image_available, render_finished, frame_inflight, image_inflight>>

frameVars == <<frame_idx, img_idx, gpu_queue>>

markVars == <<submits, rendered, targets, presents_done>>

logVars == <<markVars, ops>>

callVars == <<draw_calls, draws_done, entry_idx, close_checks, close_observed,
              destroy_calls>>

histVars == <<callVars, logVars>>

\* nothing has been submitted when main() starts
LogInit ==
  /\ submits = 0
  /\ rendered = {}
  /\ targets = {}
  /\ presents_done = 0
  /\ ops = <<>>

vars == <<pc, envVars, shaderVars, windowVars, objVars, selVars, chainVars, syncVars,
          frameVars, error, histVars>>

(***************************************************************************)
(* readFile: a file is there or not, and holds bytes.  The stream is       *)
(* opened at its end, tellg gives the size, a buffer of that size is       *)
(* allocated and filled with the first size bytes of the file.             *)
(***************************************************************************)
File(bytes) == [exists |-> TRUE, bytes |-> bytes]

MissingFile == [exists |-> FALSE, bytes |-> <<>>]

\* variant: the buffer is extended with zero bytes to a whole number of words
readFile_Padded(f) ==
  LET size == Len(f.bytes)
      padded == ((size + 3) \div 4) * 4
  IN  [threw |-> ~f.exists,
       buf |-> IF f.exists
               THEN [i \in 1..padded |-> IF i <= size THEN f.bytes[i] ELSE 0]
               ELSE <<>>]

readFile(f) ==
  LET size == Len(f.bytes)
  IN  [threw |-> ~f.exists,
       buf |-> IF f.exists THEN [i \in 1..size |-> f.bytes[i]] ELSE <<>>]

NoSwapchain == [minImageCount |-> U32Zero, imageFormat |-> NoFormat,
                imageExtent |-> NoExtent, presentMode |-> "none"]

(***************************************************************************)
(* The statements of Renderer::Renderer in source order, and what each     *)
(* creates.                                                                *)
(***************************************************************************)
\* mutant: the framebuffers are created before the render pass
SetupOrder_FramebuffersEarly ==
  <<"createInstance", "createSurface", "chooseRenderGroup", "createDevice",
    "getQueue", "chooseSurfaceFormat", "chooseImageCount", "chooseSwapExtent",
    "createSwapchain", "getSwapchainImages", "createImageViews",
    "createFramebuffers", "createRenderPass", "createPipeline",
    "createCommandPool", "allocateCommandBuffers", "recordCommandBuffers",
    "createSyncPrimitives">>

SetupOrder ==
  <<"createInstance", "createSurface", "chooseRenderGroup", "createDevice",
    "getQueue", "chooseSurfaceFormat", "chooseImageCount", "chooseSwapExtent",
    "createSwapchain", "getSwapchainImages", "createImageViews",
    "createRenderPass", "createPipeline", "createFramebuffers",
    "createCommandPool", "allocateCommandBuffers", "recordCommandBuffers",
    "createSyncPrimitives">>

SetupSteps == Range(SetupOrder)

Creates(step) ==
  CASE step = "createInstance" -> {"inst"}
    [] step = "createSurface" -> {"surf"}
    [] step = "createDevice" -> {"dev"}
    [] step = "getQueue" -> {"gfx_q"}
    [] step = "createSwapchain" -> {"swapchain"}
    [] step = "createImageViews" -> {"image_views"}
    [] step = "createRenderPass" -> {"render_pass"}
    [] step = "createPipeline" -> {"layout", "pipeline"}
    [] step = "createFramebuffers" -> {"framebuffers"}
    [] step = "createCommandPool" -> {"cmd_pool"}
    [] step = "allocateCommandBuffers" -> {"cmd_bufs"}
    [] step = "createSyncPrimitives" -> {"sync"}
    [] OTHER -> {}

\* the objects a creation call is handed (its create info and its parent)
Uses(obj) ==
  CASE obj = "inst" -> {}
    [] obj = "surf" -> {"inst"}
    [] obj = "dev" -> {"inst"}
    [] obj = "gfx_q" -> {"dev"}
    [] obj = "swapchain" -> {"dev", "surf"}
    [] obj = "image_views" -> {"dev", "swapchain"}
    [] obj = "render_pass" -> {"dev"}
    [] obj = "layout" -> {"dev"}
    [] obj = "pipeline" -> {"dev", "layout", "render_pass"}
    [] obj = "framebuffers" -> {"dev", "render_pass", "image_views"}
    [] obj = "cmd_pool" -> {"dev"}
    [] obj = "cmd_bufs" -> {"dev", "cmd_pool", "render_pass", "framebuffers",
                            "pipeline"}
    [] obj = "sync" -> {"dev"}
    [] OTHER -> {}

Objects == UNION {Creates(s) : s \in SetupSteps}

\* the statements that call into Vulkan or GLFW and so may throw
ThrowingSetup ==
  SetupSteps \ {"getQueue", "chooseSurfaceFormat", "chooseImageCount",
                "chooseSwapExtent"}

Index(seq, x) == CHOOSE i \in 1..Len(seq) : seq[i] = x

\* the statement after step in seq, or last after the final one
After(seq, step, last) ==
  IF Index(seq, step) = Len(seq) THEN last ELSE seq[Index(seq, step) + 1]

\* main.cpp line 7 follows the constructor
AfterSetup(step) == After(SetupOrder, step, "loop_check")

(***************************************************************************)
(* Renderer::destroy in source order, and what each statement destroys.    *)
(* Destroying the command pool frees the command buffers allocated of it; *)
(* destroying the device retires its queue handle.                         *)
(***************************************************************************)
\* mutant: the render pass is destroyed before the framebuffers
TeardownOrder_RenderPassEarly ==
  <<"waitIdle", "destroy_sync", "destroy_cmd_pool", "destroy_render_pass",
    "destroy_framebuffers", "destroy_pipeline", "destroy_layout",
    "destroy_image_views", "destroy_swapchain", "destroy_dev", "destroy_surf",
    "destroy_inst">>

TeardownOrder ==
  <<"waitIdle", "destroy_sync", "destroy_cmd_pool", "destroy_framebuffers",
    "destroy_pipeline", "destroy_layout", "destroy_render_pass",
    "destroy_image_views", "destroy_swapchain", "destroy_dev", "destroy_surf",
    "destroy_inst">>

TeardownSteps == Range(TeardownOrder)

Destroys(step) ==
  CASE step = "destroy_sync" -> {"sync"}
    [] step = "destroy_cmd_pool" -> {"cmd_pool", "cmd_bufs"}
    [] step = "destroy_framebuffers" -> {"framebuffers"}
    [] step = "destroy_pipeline" -> {"pipeline"}
    [] step = "destroy_layout" -> {"layout"}
    [] step = "destroy_render_pass" -> {"render_pass"}
    [] step = "destroy_image_views" -> {"image_views"}
    [] step = "destroy_swapchain" -> {"swapchain"}
    [] step = "destroy_dev" -> {"dev", "gfx_q"}
    [] step = "destroy_surf" -> {"surf"}
    [] step = "destroy_inst" -> {"inst"}
    [] OTHER -> {}

\* main.cpp line 10 follows renderer.destroy()
AfterTeardown(step) == After(TeardownOrder, step, "window_destroy")

DrawSteps ==
  {"draw_wait_frame", "draw_acquire", "draw_wait_image", "draw_reset",
   "draw_submit", "draw_present"}

\* img_count as an index bound (the model's sessions keep it small)
N == U32Val(img_count)

(***************************************************************************)
(* The environments of a session: what the platform enumerates.            *)
(***************************************************************************)
E500 == Extent(U32Of(500), U32Of(500))

UndefinedExtent == Extent(UINT32_MAX, UINT32_MAX)

MinExtent == Extent(U32Of(1), U32Of(1))

MaxExtent == Extent(U32Of(1024), U32Of(768))

SessionCaps(minc, maxc, cur) == Caps(U32Of(minc), U32Of(maxc), cur, MinExtent, MaxExtent)

\* integrated, double buffered, unbounded image count
AdapterA ==
  Adapter("IntegratedGpu", <<RGBA8, BGRA8>>, <<"Fifo">>,
          <<QF(TRUE, TRUE)>>, SessionCaps(1, 0, E500))

\* discrete, three images, the surface leaves the extent to the swapchain
AdapterB ==
  Adapter("DiscreteGpu", <<BGRA8>>, <<"Fifo", "Immediate", "Mailbox">>,
          <<QF(FALSE, TRUE), QF(TRUE, TRUE)>>, SessionCaps(2, 3, UndefinedExtent))

\* integrated, exactly one image
AdapterC ==
  Adapter("IntegratedGpu", <<RGBA8>>, <<"Fifo", "Immediate">>,
          <<QF(TRUE, TRUE)>>, SessionCaps(1, 1, E500))

\* no queue family that can both draw and present
AdapterD ==
  Adapter("DiscreteGpu", <<BGRA8>>, <<"Fifo">>,
          <<QF(TRUE, FALSE), QF(FALSE, TRUE)>>, SessionCaps(2, 0, E500))

\* minImageCount 2 and no upper limit, with a defined current extent
AdapterE ==
  Adapter("DiscreteGpu", <<BGRA8>>, <<"Fifo">>,
          <<QF(TRUE, TRUE)>>, SessionCaps(2, 0, E500))

SessionAdapterLists ==
  {<<>>, <<AdapterD>>, <<AdapterA>>, <<AdapterC>>, <<AdapterA, AdapterB>>,
   <<AdapterD, AdapterC>>}

\* the shader files of a session: whole SPIR-V words
SessionVert == File(<<3, 2, 35, 7>>)

SessionFrag == File(<<3, 2, 35, 7, 0, 0, 1, 0>>)

SessionShaders == <<SessionVert, SessionFrag>>

\* main.cpp line 4 asks for a 500 x 500 window
SessionFbSize == <<500, 500>>

(***************************************************************************)
(* The state main() is in when the constructor is about to execute step,  *)
(* with rend_group = rg: everything before step has run, nothing after.    *)
(***************************************************************************)
Done(step, at) == Index(SetupOrder, step) < Index(SetupOrder, at)

InitAtWith(step, devs, fb, rg, files) ==
  /\ pc = step
  /\ adapters = devs
  /\ fb_size = fb
  /\ shader_files = files
  /\ vert_code = IF Done("createPipeline", step) THEN readFile(files[1]).buf ELSE <<>>
  /\ frag_code = IF Done("createPipeline", step) THEN readFile(files[2]).buf ELSE <<>>
  /\ m_window = "valid"
  /\ should_close = FALSE
  /\ live = UNION {Creates(s) : s \in {t \in SetupSteps : Done(t, step)}}
  /\ destroyed = {}
  /\ rend_group = rg
  /\ format = IF Done("chooseSurfaceFormat", step)
              THEN chooseSurfaceFormat(rg.surf_details.formats) ELSE NoFormat
  /\ img_count = IF Done("chooseImageCount", step)
                 THEN chooseImageCount(rg.surf_details.caps) ELSE U32Zero
  /\ extent = IF Done("chooseSwapExtent", step)
              THEN chooseSwapExtent(rg.surf_details.caps, fb) ELSE NoExtent
  /\ swapchain = NoSwapchain
  /\ images = 0
  /\ image_views = 0
  /\ framebuffers = 0
  /\ cmd_bufs = <<>>
  /\ image_available = <<>>
  /\ render_finished = <<>>
  /\ frame_inflight = <<>>
  /\ image_inflight = <<>>
  /\ frame_idx = 0
  /\ img_idx = 0
  /\ gpu_queue = <<>>
  /\ error = "none"
  /\ draw_calls = 0
  /\ draws_done = 0
  /\ entry_idx = 0
  /\ close_checks = 0
  /\ close_observed = FALSE
  /\ destroy_calls = 0
  /\ LogInit

InitAt(step, devs, fb, rg) == InitAtWith(step, devs, fb, rg, SessionShaders)

\* main() before its first statement, on a machine with one of the adapter lists
InitSession(lists) ==
  /\ pc = "Window"
  /\ adapters \in lists
  /\ fb_size = SessionFbSize
  /\ shader_files \in {SessionShaders, <<SessionVert, MissingFile>>}
  /\ vert_code = <<>>
  /\ frag_code = <<>>
  /\ m_window = "unset"
  /\ should_close = FALSE
  /\ live = {}
  /\ destroyed = {}
  /\ rend_group = NoRenderGroup
  /\ format = NoFormat
  /\ img_count = U32Zero
  /\ extent = NoExtent
  /\ swapchain = NoSwapchain
  /\ images = 0
  /\ image_views = 0
  /\ framebuffers = 0
  /\ cmd_bufs = <<>>
  /\ image_available = <<>>
  /\ render_finished = <<>>
  /\ frame_inflight = <<>>
  /\ image_inflight = <<>>
  /\ frame_idx = 0
  /\ img_idx = 0
  /\ gpu_queue = <<>>
  /\ error = "none"
  /\ draw_calls = 0
  /\ draws_done = 0
  /\ entry_idx = 0
  /\ close_checks = 0
  /\ close_observed = FALSE
  /\ destroy_calls = 0
  /\ LogInit

Init == InitSession(SessionAdapterLists)

(***************************************************************************)
(* An exception nobody catches: main() has no handler, so the program      *)
(* ends where it is and nothing after the throwing statement runs.         *)
(***************************************************************************)
Throw(what) ==
  /\ pc' = "terminated"
  /\ error' = what
  /\ UNCHANGED <<envVars, shaderVars, windowVars, objVars, selVars, chainVars, syncVars,
                 frameVars, histVars>>

(***************************************************************************)
(* Window::Window: glfwInit may fail (throws); glfwCreateWindow's result   *)
(* is stored unchecked, so m_window may be null.                           *)
(***************************************************************************)
WindowCtor ==
  /\ pc = "Window"
  /\ \/ /\ \E w \in {"valid", "null"} : m_window' = w
        /\ pc' = SetupOrder[1]
        /\ UNCHANGED <<envVars, shaderVars, should_close, objVars, selVars, chainVars,
                       syncVars, frameVars, error, histVars>>
     \/ Throw("Failed to init glfw")

\* a constructor statement that only creates its objects
Create(step) ==
  /\ pc = step
  /\ pc' = AfterSetup(step)
  /\ live' = live \cup Creates(step)
  /\ UNCHANGED <<envVars, shaderVars, windowVars, destroyed, selVars, chainVars, syncVars,
                 frameVars, error, histVars>>

CreateInstance == Create("createInstance")

\* glfwCreateWindowSurface fails on a null window
CreateSurface ==
  /\ m_window = "valid"
  /\ Create("createSurface")

CreateDevice == Create("createDevice")

GetQueue == Create("getQueue")

CreateRenderPass == Create("createRenderPass")

(***************************************************************************)
(* createPipeline reads both shader files before it creates anything: a    *)
(* file that cannot be opened ends the program there.  The shader modules  *)
(* are created from the buffers (codeSize = size()) and destroyed again    *)
(* before createPipeline returns.                                          *)
(***************************************************************************)
CreatePipeline ==
  /\ pc = "createPipeline"
  /\ LET vert == readFile(shader_files[1])
         frag == readFile(shader_files[2])
     IN  IF vert.threw
         THEN /\ pc' = "terminated"
              /\ error' = "failed to open file"
              /\ UNCHANGED <<vert_code, frag_code, live>>
         ELSE IF frag.threw
         THEN /\ pc' = "terminated"
              /\ error' = "failed to open file"
              /\ vert_code' = vert.buf
              /\ UNCHANGED <<frag_code, live>>
         ELSE /\ vert_code' = vert.buf
              /\ frag_code' = frag.buf
              /\ pc' = AfterSetup("createPipeline")
              /\ live' = live \cup Creates("createPipeline")
              /\ UNCHANGED error
  /\ UNCHANGED <<envVars, windowVars, destroyed, selVars, chainVars, syncVars,
                 frameVars, histVars>>

CreateCommandPool == Create("createCommandPool")

\* any Vulkan or GLFW call of the constructor reporting an error
SetupThrow ==
  /\ pc \in ThrowingSetup
  /\ Throw("setup call failed")

ChooseRenderGroup ==
  /\ pc = "chooseRenderGroup"
  /\ LET r == chooseRenderGroup(adapters, rend_group)
     IN  /\ rend_group' = r.rend_group
         /\ pc' = IF r.threw THEN "terminated" ELSE AfterSetup("chooseRenderGroup")
         /\ error' = IF r.threw THEN "no suitable device group found" ELSE error
  /\ UNCHANGED <<envVars, shaderVars, windowVars, objVars, format, img_count, extent,
                 chainVars, syncVars, frameVars, histVars>>

ChooseSurfaceFormat ==
  /\ pc = "chooseSurfaceFormat"
  /\ format' = chooseSurfaceFormat(rend_group.surf_details.formats)
  /\ pc' = AfterSetup("chooseSurfaceFormat")
  /\ UNCHANGED <<envVars, shaderVars, windowVars, objVars, rend_group, img_count, extent,
                 chainVars, syncVars, frameVars, error, histVars>>

ChooseImageCount ==
  /\ pc = "chooseImageCount"
  /\ img_count' = chooseImageCount(rend_group.surf_details.caps)
  /\ pc' = AfterSetup("chooseImageCount")
  /\ UNCHANGED <<envVars, shaderVars, windowVars, objVars, rend_group, format, extent,
                 chainVars, syncVars, frameVars, error, histVars>>

ChooseSwapExtent ==
  /\ pc = "chooseSwapExtent"
  /\ extent' = chooseSwapExtent(rend_group.surf_details.caps, fb_size)
  /\ pc' = AfterSetup("chooseSwapExtent")
  /\ UNCHANGED <<envVars, shaderVars, windowVars, objVars, rend_group, format, img_count,
                 chainVars, syncVars, frameVars, error, histVars>>

CreateSwapchain ==
  /\ pc = "createSwapchain"
  /\ swapchain' = [minImageCount |-> img_count, imageFormat |-> format,
                   imageExtent |-> extent,
                   presentMode |-> choosePresentMode(rend_group.surf_details.present_modes)]
  /\ pc' = AfterSetup("createSwapchain")
  /\ live' = live \cup Creates("createSwapchain")
  /\ UNCHANGED <<envVars, shaderVars, windowVars, destroyed, selVars, images, image_views,
                 framebuffers, cmd_bufs, syncVars, frameVars, error, histVars>>

\* the swapchain holds at least the requested number of images
GetSwapchainImages ==
  /\ pc = "getSwapchainImages"
  /\ \E extra \in 0..MaxExtraImages : images' = U32Val(swapchain.minImageCount) + extra
  /\ pc' = AfterSetup("getSwapchainImages")
  /\ UNCHANGED <<envVars, shaderVars, windowVars, objVars, selVars, swapchain, image_views,
                 framebuffers, cmd_bufs, syncVars, frameVars, error, histVars>>

CreateImageViews ==
  /\ pc = "createImageViews"
  /\ image_views' = images
  /\ pc' = AfterSetup("createImageViews")
  /\ live' = live \cup Creates("createImageViews")
  /\ UNCHANGED <<envVars, shaderVars, windowVars, destroyed, selVars, swapchain, images,
                 framebuffers, cmd_bufs, syncVars, frameVars, error, histVars>>

\* variant: one framebuffer per requested image instead of one per image view
CreateFramebuffers_PerRequested ==
  /\ pc = "createFramebuffers"
  /\ framebuffers' = N
  /\ pc' = AfterSetup("createFramebuffers")
  /\ live' = live \cup Creates("createFramebuffers")
  /\ UNCHANGED <<envVars, shaderVars, windowVars, destroyed, selVars, swapchain, images,
                 image_views, cmd_bufs, syncVars, frameVars, error, histVars>>

CreateFramebuffers ==
  /\ pc = "createFramebuffers"
  /\ framebuffers' = image_views
  /\ pc' = AfterSetup("createFramebuffers")
  /\ live' = live \cup Creates("createFramebuffers")
  /\ UNCHANGED <<envVars, shaderVars, windowVars, destroyed, selVars, swapchain, images,
                 image_views, cmd_bufs, syncVars, frameVars, error, histVars>>

\* a command buffer: the framebuffer it draws into (0: none yet), the
\* draw it holds, how often it was recorded
EmptyCmdBuf == [framebuffer |-> 0, vertices |-> 0, instances |-> 0, recorded |-> 0]

AllocateCommandBuffers ==
  /\ pc = "allocateCommandBuffers"
  /\ cmd_bufs' = [i \in 1..framebuffers |-> EmptyCmdBuf]
  /\ pc' = AfterSetup("allocateCommandBuffers")
  /\ live' = live \cup Creates("allocateCommandBuffers")
  /\ UNCHANGED <<envVars, shaderVars, windowVars, destroyed, selVars, swapchain, images,
                 image_views, framebuffers, syncVars, frameVars, error, histVars>>

RecordCommandBuffers ==
  /\ pc = "recordCommandBuffers"
  /\ cmd_bufs' = [i \in 1..Len(cmd_bufs) |->
                    [framebuffer |-> i, vertices |-> 3, instances |-> 1,
                     recorded |-> cmd_bufs[i].recorded + 1]]
  /\ pc' = AfterSetup("recordCommandBuffers")
  /\ UNCHANGED <<envVars, shaderVars, windowVars, objVars, selVars, swapchain, images,
                 image_views, framebuffers, syncVars, frameVars, error, histVars>>

\* every fence is created signaled; image_inflight holds null handles
CreateSyncPrimitives ==
  /\ pc = "createSyncPrimitives"
  /\ image_available' = [i \in 1..N |-> FALSE]
  /\ render_finished' = [i \in 1..N |-> 0]
  /\ frame_inflight' = [i \in 1..N |-> TRUE]
  /\ image_inflight' = [i \in 1..N |-> 0]
  /\ pc' = AfterSetup("createSyncPrimitives")
  /\ live' = live \cup Creates("createSyncPrimitives")
  /\ UNCHANGED <<envVars, shaderVars, windowVars, destroyed, selVars, chainVars, frameVars,
                 error, histVars>>

(***************************************************************************)
(* Window::run_continuous: the loop condition, then glfwPollEvents, then   *)
(* f(), which is renderer.draw() (main.cpp line 7).  When the loop ends,   *)
(* main() goes on to renderer.destroy().                                   *)
(***************************************************************************)
\* mutant: main() forgets renderer.destroy()
LoopExit_NoDestroy == "window_destroy"

LoopExit == TeardownOrder[1]

LoopCheck ==
  /\ pc = "loop_check"
  /\ close_checks' = close_checks + 1
  /\ IF should_close
     THEN /\ pc' = LoopExit
          /\ close_observed' = TRUE
          /\ destroy_calls' = destroy_calls + 1
     ELSE /\ pc' = "poll"
          /\ UNCHANGED <<close_observed, destroy_calls>>
  /\ UNCHANGED <<envVars, shaderVars, windowVars, objVars, selVars, chainVars, syncVars,
                 frameVars, error, draw_calls, draws_done, entry_idx, logVars>>

\* glfwPollEvents may deliver a close request; f() is then entered.  The
\* user closes the window at the latest after MaxDraws frames.
PollEvents ==
  /\ pc = "poll"
  /\ \E c \in BOOLEAN :
       /\ draws_done + 1 >= MaxDraws => c
       /\ should_close' = (should_close \/ c)
  /\ pc' = "draw_wait_frame"
  /\ draw_calls' = draw_calls + 1
  /\ entry_idx' = frame_idx
  /\ ops' = <<>>
  /\ UNCHANGED <<envVars, shaderVars, m_window, objVars, selVars, chainVars, syncVars,
                 frameVars, error, draws_done, close_checks, close_observed,
                 destroy_calls, markVars>>

(***************************************************************************)
(* Renderer::draw, one action per call it makes.  A fence is named by its  *)
(* frame slot + 1; 0 is the null handle.                                   *)
(***************************************************************************)
Fence(slot) == slot + 1

Signaled(fence) == frame_inflight[fence]

\* waitForFences on frame_inflight[frame_idx] returns once it is signaled
\* variant: draw() does not wait for the slot's fence
DrawWaitFrame_NoWait ==
  /\ pc = "draw_wait_frame"
  /\ ops' = Append(ops, <<"wait", "frame_inflight", frame_idx>>)
  /\ pc' = "draw_acquire"
  /\ UNCHANGED <<envVars, shaderVars, windowVars, objVars, selVars, chainVars, syncVars,
                 frameVars, error, callVars, markVars>>

DrawWaitFrame ==
  /\ pc = "draw_wait_frame"
  /\ Signaled(Fence(frame_idx))
  /\ ops' = Append(ops, <<"wait", "frame_inflight", frame_idx>>)
  /\ pc' = "draw_acquire"
  /\ UNCHANGED <<envVars, shaderVars, windowVars, objVars, selVars, chainVars, syncVars,
                 frameVars, error, callVars, markVars>>

\* acquireNextImageKHR hands out the index of one of the swapchain's images
\* variant: the acquire signals the next slot's semaphore
DrawAcquire_NextSemaphore ==
  /\ pc = "draw_acquire"
  /\ \E i \in 0..(images - 1) : img_idx' = i
  /\ image_available' = [image_available EXCEPT ![((frame_idx + 1) % N) + 1] = TRUE]
  /\ ops' = Append(ops, <<"acquire", "image_available", (frame_idx + 1) % N>>)
  /\ pc' = "draw_wait_image"
  /\ UNCHANGED <<envVars, shaderVars, windowVars, objVars, selVars, chainVars,
                 render_finished, frame_inflight, image_inflight,
                 frame_idx, gpu_queue, error, callVars, markVars>>

DrawAcquire ==
  /\ pc = "draw_acquire"
  /\ \E i \in 0..(images - 1) : img_idx' = i
  /\ image_available' = [image_available EXCEPT ![frame_idx + 1] = TRUE]
  /\ ops' = Append(ops, <<"acquire", "image_available", frame_idx>>)
  /\ pc' = "draw_wait_image"
  /\ UNCHANGED <<envVars, shaderVars, windowVars, objVars, selVars, chainVars,
                 render_finished, frame_inflight, image_inflight,
                 frame_idx, gpu_queue, error, callVars, markVars>>

\* lines 104-108.  An index past the end of image_inflight reads and writes
\* outside the vector: the read yields any handle, the write lands outside
\* the table, or the process dies.
\* variant: the acquired image's entry is not updated
DrawWaitImage_NoRecord ==
  /\ pc = "draw_wait_image"
  /\ img_idx < Len(image_inflight) =>
        (image_inflight[img_idx + 1] # 0 => Signaled(image_inflight[img_idx + 1]))
  /\ ops' = ops \o << <<"wait_if_set", "image_inflight", img_idx>>,
                      <<"record", "image_inflight", img_idx>> >>
  /\ pc' = "draw_reset"
  /\ UNCHANGED <<envVars, shaderVars, windowVars, objVars, selVars, chainVars,
                 syncVars, frameVars, error, callVars, markVars>>

DrawWaitImage ==
  /\ pc = "draw_wait_image"
  /\ IF img_idx < Len(image_inflight)
     THEN /\ image_inflight[img_idx + 1] # 0 => Signaled(image_inflight[img_idx + 1])
          /\ image_inflight' = [image_inflight EXCEPT ![img_idx + 1] = Fence(frame_idx)]
          /\ ops' = ops \o << <<"wait_if_set", "image_inflight", img_idx>>,
                              <<"record", "image_inflight", img_idx>> >>
          /\ pc' = "draw_reset"
          /\ UNCHANGED error
     ELSE /\ UNCHANGED image_inflight
          /\ \/ /\ pc' = "draw_reset"
                /\ ops' = ops \o << <<"wait_if_set", "image_inflight", img_idx>>,
                                    <<"record", "image_inflight", img_idx>> >>
                /\ UNCHANGED error
             \/ /\ pc' = "terminated"
                /\ error' = "out of bounds access"
                /\ UNCHANGED ops
  /\ UNCHANGED <<envVars, shaderVars, windowVars, objVars, selVars, chainVars,
                 image_available, render_finished, frame_inflight, frameVars,
                 callVars, markVars>>

DrawReset ==
  /\ pc = "draw_reset"
  /\ frame_inflight' = [frame_inflight EXCEPT ![Fence(frame_idx)] = FALSE]
  /\ ops' = Append(ops, <<"reset", "frame_inflight", frame_idx>>)
  /\ pc' = "draw_submit"
  /\ UNCHANGED <<envVars, shaderVars, windowVars, objVars, selVars, chainVars,
                 image_available, render_finished, image_inflight, frameVars,
                 error, callVars, markVars>>

\* variant: draw() records the command buffer again before submitting it
DrawSubmit_Rerecord ==
  /\ pc = "draw_submit"
  /\ cmd_bufs' = [cmd_bufs EXCEPT ![img_idx + 1].recorded = @ + 1]
  /\ gpu_queue' = Append(gpu_queue,
                         [op |-> "submit", slot |-> frame_idx, img |-> img_idx,
                          call |-> draws_done, wait |-> frame_idx,
                          signal |-> frame_idx, cmd |-> cmd_bufs'[img_idx + 1]])
  /\ submits' = submits + 1
  /\ rendered' = {p \in rendered : p[1] # img_idx} \cup {<<img_idx, frame_idx>>}
  /\ targets' = {p \in targets : p[1] # frame_idx} \cup {<<frame_idx, img_idx>>}
  /\ ops' = Append(ops, <<"submit", "frame_inflight", frame_idx>>)
  /\ pc' = "draw_present"
  /\ UNCHANGED <<envVars, shaderVars, windowVars, objVars, selVars, swapchain, images,
                 image_views, framebuffers, syncVars, frame_idx, img_idx, error,
                 callVars, presents_done>>

\* gfx_q.submit of cmd_bufs[img_idx]: the batch waits for
\* image_available[frame_idx], signals render_finished[frame_idx] and the
\* fence frame_inflight[frame_idx]; call is history: how many draw() calls
\* had returned before this one
DrawSubmit ==
  /\ pc = "draw_submit"
  /\ gpu_queue' = Append(gpu_queue,
                         [op |-> "submit", slot |-> frame_idx, img |-> img_idx,
                          call |-> draws_done, wait |-> frame_idx,
                          signal |-> frame_idx, cmd |-> cmd_bufs[img_idx + 1]])
  /\ submits' = submits + 1
  /\ rendered' = {p \in rendered : p[1] # img_idx} \cup {<<img_idx, frame_idx>>}
  /\ targets' = {p \in targets : p[1] # frame_idx} \cup {<<frame_idx, img_idx>>}
  /\ ops' = Append(ops, <<"submit", "frame_inflight", frame_idx>>)
  /\ pc' = "draw_present"
  /\ UNCHANGED <<envVars, shaderVars, windowVars, objVars, selVars, chainVars, syncVars,
                 frame_idx, img_idx, error, callVars, presents_done>>

\* mutant: the slot follows the acquired image
NextFrameIdx_FromImage == (img_idx + 1) % N

\* the slot the next draw() runs on: ++frame_idx %= img_count
NextFrameIdx == (frame_idx + 1) % N

\* variant: the present waits on the next slot's semaphore
DrawPresent_NextSemaphore ==
  /\ pc = "draw_present"
  /\ gpu_queue' = Append(gpu_queue,
                         [op |-> "present", slot |-> frame_idx, img |-> img_idx,
                          call |-> draws_done, wait |-> NextFrameIdx,
                          signal |-> frame_idx, cmd |-> EmptyCmdBuf])
  /\ frame_idx' = NextFrameIdx
  /\ draws_done' = draws_done + 1
  /\ ops' = ops \o << <<"present", "render_finished", frame_idx>>,
                      <<"advance", "frame_idx", NextFrameIdx>> >>
  /\ pc' = "loop_check"
  /\ UNCHANGED <<envVars, shaderVars, windowVars, objVars, selVars, chainVars, syncVars,
                 img_idx, error, draw_calls, entry_idx, close_checks,
                 close_observed, destroy_calls, markVars>>

\* gfx_q.presentKHR queues the present of image img_idx, which waits for
\* render_finished[frame_idx], and returned eSuccess; frame_idx advances and
\* draw() returns to the loop.  A present request has no batch: its signal
\* and cmd fields are not used.
DrawPresent ==
  /\ pc = "draw_present"
  /\ gpu_queue' = Append(gpu_queue,
                         [op |-> "present", slot |-> frame_idx, img |-> img_idx,
                          call |-> draws_done, wait |-> frame_idx,
                          signal |-> frame_idx, cmd |-> EmptyCmdBuf])
  /\ frame_idx' = NextFrameIdx
  /\ draws_done' = draws_done + 1
  /\ ops' = ops \o << <<"present", "render_finished", frame_idx>>,
                      <<"advance", "frame_idx", NextFrameIdx>> >>
  /\ pc' = "loop_check"
  /\ UNCHANGED <<envVars, shaderVars, windowVars, objVars, selVars, chainVars, syncVars,
                 img_idx, error, draw_calls, entry_idx, close_checks,
                 close_observed, destroy_calls, markVars>>

\* mutant: the loop swallows the exception and goes on
DrawThrow_Swallowed ==
  /\ pc \in DrawSteps
  /\ pc' = "loop_check"
  /\ error' = "draw call failed"
  /\ UNCHANGED <<envVars, shaderVars, windowVars, objVars, selVars, chainVars, syncVars,
                 frameVars, histVars>>

\* a call of draw() failing: waitForFences not eSuccess, acquire, reset or
\* submit throwing, presentKHR returning anything but eSuccess
DrawThrow ==
  /\ pc \in DrawSteps
  /\ Throw("draw call failed")

\* the graphics queue completes its oldest operation, a submitted batch: the
\* wait on its image_available semaphore is over, its render_finished
\* semaphore and its fence are signaled
GpuComplete ==
  /\ gpu_queue # <<>>
  /\ Head(gpu_queue).op = "submit"
  /\ image_available[Head(gpu_queue).wait + 1]
  /\ image_available' = [image_available EXCEPT ![Head(gpu_queue).wait + 1] = FALSE]
  /\ render_finished' = [render_finished EXCEPT
                            ![Head(gpu_queue).signal + 1] = Head(gpu_queue).call + 1]
  /\ frame_inflight' = [frame_inflight EXCEPT ![Fence(Head(gpu_queue).slot)] = TRUE]
  /\ gpu_queue' = Tail(gpu_queue)
  /\ UNCHANGED <<pc, envVars, shaderVars, windowVars, objVars, selVars, chainVars,
                 image_inflight, frame_idx, img_idx, error, histVars>>

\* the graphics queue executes its oldest operation, a present request, once
\* the semaphore it waits for is signaled; the wait unsignals the semaphore
GpuPresent ==
  /\ gpu_queue # <<>>
  /\ Head(gpu_queue).op = "present"
  /\ render_finished[Head(gpu_queue).wait + 1] # 0
  /\ render_finished' = [render_finished EXCEPT ![Head(gpu_queue).wait + 1] = 0]
  /\ presents_done' = presents_done + 1
  /\ gpu_queue' = Tail(gpu_queue)
  /\ UNCHANGED <<pc, envVars, shaderVars, windowVars, objVars, selVars, chainVars,
                 image_available, frame_inflight, image_inflight, frame_idx,
                 img_idx, error, callVars, submits, rendered, targets, ops>>

(***************************************************************************)
(* Renderer::destroy and Window::destroy.                                  *)
(***************************************************************************)
\* dev.waitIdle() returns when the queue has nothing left to execute
WaitIdle ==
  /\ pc = "waitIdle"
  /\ gpu_queue = <<>>
  /\ pc' = AfterTeardown("waitIdle")
  /\ UNCHANGED <<envVars, shaderVars, windowVars, objVars, selVars, chainVars, syncVars,
                 frameVars, error, histVars>>

WaitIdleThrow ==
  /\ pc = "waitIdle"
  /\ Throw("waitIdle failed")

DestroyStep ==
  /\ pc \in TeardownSteps \ {"waitIdle"}
  /\ live' = live \ Destroys(pc)
  /\ destroyed' = destroyed \cup Destroys(pc)
  /\ pc' = AfterTeardown(pc)
  /\ UNCHANGED <<envVars, shaderVars, windowVars, selVars, chainVars, syncVars, frameVars,
                 error, histVars>>

WindowDestroy ==
  /\ pc = "window_destroy"
  /\ m_window' = "destroyed"
  /\ pc' = "done"
  /\ UNCHANGED <<envVars, shaderVars, should_close, objVars, selVars, chainVars, syncVars,
                 frameVars, error, histVars>>

(***************************************************************************)
(* The session: main() from its first statement.                           *)
(***************************************************************************)
Setup ==
  \/ WindowCtor
  \/ CreateInstance
  \/ CreateSurface
  \/ ChooseRenderGroup
  \/ CreateDevice
  \/ GetQueue
  \/ ChooseSurfaceFormat
  \/ ChooseImageCount
  \/ ChooseSwapExtent
  \/ CreateSwapchain
  \/ GetSwapchainImages
  \/ CreateImageViews
  \/ CreateRenderPass
  \/ CreatePipeline
  \/ CreateFramebuffers
  \/ CreateCommandPool
  \/ AllocateCommandBuffers
  \/ RecordCommandBuffers
  \/ CreateSyncPrimitives
  \/ SetupThrow

Draw ==
  \/ DrawWaitFrame
  \/ DrawAcquire
  \/ DrawWaitImage
  \/ DrawReset
  \/ DrawSubmit
  \/ DrawPresent
  \/ DrawThrow

Teardown ==
  \/ WaitIdle
  \/ WaitIdleThrow
  \/ DestroyStep
  \/ WindowDestroy

Next ==
  \/ Setup
  \/ LoopCheck
  \/ PollEvents
  \/ Draw
  \/ GpuComplete
  \/ GpuPresent
  \/ Teardown

Spec == Init /\ [][Next]_vars

(***************************************************************************)
(* Properties of the session.                                              *)
(***************************************************************************)
LoopPcs == DrawSteps \cup {"loop_check", "poll"}

SetupErrors ==
  {"Failed to init glfw", "setup call failed", "no suitable device group found",
   "failed to open file"}

\* C1: frame_idx starts at 0 and the k-th successful draw() (k = 0, 1, ...)
\* runs on frame slot k mod img_count, whatever image the acquire step
\* returns: while the loop runs frame_idx is (number of draws that returned)
\* mod img_count, and every submission was made for the slot of its call.
C1_FrameSlotCycling ==
  /\ pc \in {"Window"} \cup SetupSteps => frame_idx = 0
  /\ pc \in LoopPcs => frame_idx = draws_done % N
  /\ \A i \in 1..Len(gpu_queue) : gpu_queue[i].slot = gpu_queue[i].call % N

\* C1 witness: with three slots the fourth draw() is back on slot 0 and has
\* acquired an image other than its slot.
C1_Witness ==
  /\ pc = "draw_submit"
  /\ N = 3
  /\ draws_done = 3
  /\ frame_idx = 0
  /\ img_idx = 2

\* the objects in the order the teardown is documented to destroy them
DocumentedTeardown ==
  <<"sync", "cmd_pool", "framebuffers", "pipeline", "layout", "render_pass",
    "image_views", "swapchain", "dev", "surf", "inst">>

\* C2: destroy() waits for the device to be idle first and then destroys in
\* the documented order, so an object is destroyed only when no object
\* created from it is left and no submitted GPU work is outstanding.
C2_TeardownOrdering ==
  /\ destroyed # {} => gpu_queue = <<>>
  /\ pc \in TeardownSteps \ {"waitIdle"} => gpu_queue = <<>>
  /\ \A o \in destroyed : \A p \in Objects : o \in Uses(p) => p \notin live
  /\ \A i, j \in 1..Len(DocumentedTeardown) :
       i < j /\ DocumentedTeardown[j] \in destroyed
         => DocumentedTeardown[i] \in destroyed

\* C2 witness: after frames were drawn, teardown has destroyed the
\* framebuffers and pipeline and is about to destroy the render pass.
C2_Witness ==
  /\ pc = "destroy_render_pass"
  /\ draws_done >= 2
  /\ {"framebuffers", "pipeline"} \subseteq destroyed
  /\ "render_pass" \in live

\* C3: setup runs once in the fixed order (device selection, device and
\* queue, swapchain parameters and swapchain, image views / render pass /
\* pipeline / framebuffers, command recording, sync primitives); an object
\* exists only if the objects it is created from exist; draw() is entered
\* only after the whole setup; after a setup failure no draw() happens.
C3_SetupBeforeLoop ==
  /\ destroyed = {} => \A o \in live : Uses(o) \subseteq live
  /\ "dev" \in live => rend_group.dev # 0
  /\ "swapchain" \in live =>
       /\ "gfx_q" \in live
       /\ swapchain.imageFormat = format /\ format # NoFormat
       /\ swapchain.minImageCount = img_count /\ img_count # U32Zero
       /\ swapchain.imageExtent = extent /\ extent # NoExtent
  /\ "image_views" \in live => "swapchain" \in live
  /\ "framebuffers" \in live => {"image_views", "render_pass", "pipeline"} \subseteq live
  /\ \A i \in 1..Len(cmd_bufs) :
       cmd_bufs[i].recorded = 1 => "framebuffers" \in live \cup destroyed
  /\ "sync" \in live => \A i \in 1..Len(cmd_bufs) : cmd_bufs[i].recorded = 1
  /\ \A i \in 1..Len(cmd_bufs) : cmd_bufs[i].recorded <= 1
  /\ pc \in LoopPcs =>
       /\ live = Objects
       /\ Len(frame_inflight) = N
  /\ draw_calls > 0 \/ close_checks > 0 => live \cup destroyed = Objects
  /\ error \in SetupErrors => pc = "terminated" /\ draw_calls = 0 /\ close_checks = 0

\* C3 witness: a setup call fails after the swapchain exists; no draw().
C3_Witness ==
  /\ error = "setup call failed"
  /\ "swapchain" \in live
  /\ "sync" \notin live
  /\ draw_calls = 0

\* C4: on a normal exit the close flag is checked once per iteration, before
\* that iteration's draw(); no draw() is entered once the flag was seen
\* set; destroy() is called exactly once, after the last draw() returned
\* and before the window is destroyed.
C4_SessionLifecycle ==
  /\ pc = "poll" => close_checks = draw_calls + 1
  /\ pc \in DrawSteps => close_checks = draw_calls
  /\ close_observed =>
       /\ pc \notin LoopPcs
       /\ draw_calls = draws_done
       /\ close_checks = draw_calls + 1
  /\ destroy_calls <= 1
  /\ destroy_calls = 1 => close_observed
  /\ destroyed # {} => destroy_calls = 1
  /\ pc \in TeardownSteps => destroy_calls = 1 /\ m_window = "valid"
  /\ m_window = "destroyed" => destroy_calls = 1 /\ live = {} /\ destroyed = Objects
  /\ pc = "done" => m_window = "destroyed"

\* C4 witness: the session ended normally after several frames.
C4_Witness ==
  /\ pc = "done"
  /\ draws_done >= 2
  /\ destroy_calls = 1
  /\ m_window = "destroyed"

\* C5: a failure inside draw() ends that call without advancing frame_idx,
\* leaves the loop (no further draw()), and no teardown runs.
C5_DrawFailure ==
  error = "draw call failed" =>
    /\ pc = "terminated"
    /\ frame_idx = entry_idx
    /\ draw_calls = draws_done + 1
    /\ destroy_calls = 0
    /\ destroyed = {}
    /\ live = Objects
    /\ m_window = "valid"

\* C5 witness: the present of a later frame fails after its submission.
C5_Witness ==
  /\ error = "draw call failed"
  /\ draws_done >= 1
  /\ img_idx < Len(image_inflight)
  /\ image_inflight[img_idx + 1] = Fence(frame_idx)
  /\ ~Signaled(Fence(frame_idx))

(***************************************************************************)
(* Adapter selection over every short list of adapters: the constructor   *)
(* at chooseRenderGroup, then createDevice.                                *)
(***************************************************************************)
DeviceTypes == {"DiscreteGpu", "IntegratedGpu"}

\* <<formats, present modes>> a device reports for the surface
SurfaceSamples ==
  {<<<<BGRA8>>, <<"Fifo">>>>, <<<<>>, <<"Fifo">>>>, <<<<BGRA8>>, <<>>>>}

QFamSamples ==
  {<<>>,
   <<QF(TRUE, FALSE)>>,
   <<QF(TRUE, FALSE), QF(FALSE, TRUE)>>,
   <<QF(FALSE, TRUE), QF(TRUE, TRUE)>>,
   <<QF(TRUE, TRUE), QF(TRUE, TRUE)>>}

AdapterSamples ==
  {Adapter(t, sf[1], sf[2], q, SessionCaps(2, 0, E500)) :
     t \in DeviceTypes, sf \in SurfaceSamples, q \in QFamSamples}

InitAdapter ==
  \E devs \in SeqsUpTo(AdapterSamples, MaxAdapters) :
    InitAt("chooseRenderGroup", devs, SessionFbSize, NoRenderGroup)

NextAdapter ==
  \/ ChooseRenderGroup
  \/ CreateDevice

SpecAdapter == InitAdapter /\ [][NextAdapter]_vars

Qualifies(q) == q.graphics /\ q.present

ValidCandidate(a) ==
  /\ a.formats # <<>>
  /\ a.present_modes # <<>>
  /\ \E i \in 1..Len(a.qfams) : Qualifies(a.qfams[i])

Least(S) == CHOOSE x \in S : \A y \in S : x <= y

FirstQualifying(a) == Least({i \in 0..(Len(a.qfams) - 1) : Qualifies(a.qfams[i + 1])})

Candidates == {d \in 1..Len(adapters) : ValidCandidate(adapters[d])}

DiscreteCandidates == {d \in Candidates : adapters[d].deviceType = "DiscreteGpu"}

NoSuitable == "no suitable device group found"

\* C6: when a discrete GPU is a valid candidate, chooseRenderGroup selects
\* the first discrete candidate with its first qualifying queue family,
\* whatever was enumerated before it; with no discrete candidate it selects
\* the first valid candidate in enumeration order.
C6_PreferDiscrete ==
  pc \notin {"chooseRenderGroup", "terminated"} =>
    /\ Candidates # {}
    /\ LET pick == IF DiscreteCandidates # {} THEN Least(DiscreteCandidates)
                   ELSE Least(Candidates)
       IN  rend_group = [dev |-> pick,
                         qfam_idx |-> FirstQualifying(adapters[pick]),
                         surf_details |-> getSurfaceDetails(adapters[pick])]

\* C6 witness: a valid integrated adapter is enumerated first, a valid
\* discrete one second, and the second is selected with queue family 1.
C6_Witness ==
  /\ pc = "createDevice"
  /\ Len(adapters) = 2
  /\ 1 \in Candidates
  /\ adapters[1].deviceType = "IntegratedGpu"
  /\ rend_group.dev = 2
  /\ rend_group.qfam_idx = 1

\* C7: "no suitable device group found" is thrown if and only if no
\* enumerated adapter is a valid candidate; then no adapter is selected
\* and no later setup step runs.
C7_NoSuitableDevice ==
  /\ pc = "chooseRenderGroup" => error = "none"
  /\ pc # "chooseRenderGroup" => (error = NoSuitable <=> Candidates = {})
  /\ error = NoSuitable =>
       /\ pc = "terminated"
       /\ rend_group = NoRenderGroup
       /\ "dev" \notin live

\* C7 witness: one adapter has a qualifying queue family but no formats,
\* the other has formats but no qualifying family; selection fails.
C7_Witness ==
  /\ error = NoSuitable
  /\ Len(adapters) = 2
  /\ adapters[1].formats = <<>>
  /\ \E i \in 1..Len(adapters[1].qfams) : Qualifies(adapters[1].qfams[i])
  /\ adapters[2].formats # <<>>
  /\ adapters[2].present_modes # <<>>

(***************************************************************************)
(* chooseImageCount over image counts at both ends of std::uint32_t.       *)
(***************************************************************************)
CountSamples ==
  {U32Of(n) : n \in 0..MaxCount} \cup {U32Back(UINT32_MAX, 1), UINT32_MAX}

\* the render group of a session whose only adapter reports caps
GroupWith(modes, caps) ==
  [dev |-> 1, qfam_idx |-> 0,
   surf_details |-> [formats |-> <<BGRA8>>, present_modes |-> modes, caps |-> caps]]

AdapterWith(modes, caps) ==
  Adapter("DiscreteGpu", <<BGRA8>>, modes, <<QF(TRUE, TRUE)>>, caps)

InitImageCount ==
  \E minc \in CountSamples, maxc \in CountSamples :
    LET caps == Caps(minc, maxc, E500, MinExtent, MaxExtent)
    IN  InitAt("chooseImageCount", <<AdapterWith(<<"Fifo">>, caps)>>,
               SessionFbSize, GroupWith(<<"Fifo">>, caps))

NextImageCount == ChooseImageCount

SpecImageCount == InitImageCount /\ [][NextImageCount]_vars

U32Le(a, b) == a = b \/ U32Lt(a, b)

\* r = m + 1 modulo 2^32
IsSuccMod32(r, m) ==
  IF m = UINT32_MAX THEN r = U32Zero
  ELSE \/ m[2] < Limb - 1 /\ r = <<m[1], m[2] + 1>>
       \/ m[2] = Limb - 1 /\ r = <<m[1] + 1, 0>>

\* r = m + 1 in the integers (no std::uint32_t is UINT32_MAX + 1)
IsSucc(r, m) == m # UINT32_MAX /\ IsSuccMod32(r, m)

MinCount == rend_group.surf_details.caps.minImageCount

MaxCountCap == rend_group.surf_details.caps.maxImageCount

\* C8 as stated: for all 32-bit minImageCount and maxImageCount the count is
\* minImageCount + 1 when maxImageCount = 0 or minImageCount + 1 <=
\* maxImageCount, maxImageCount when 0 < maxImageCount < minImageCount + 1,
\* and always lies in [minImageCount, maxImageCount] (0: no upper bound).
C8_Original ==
  pc = "chooseSwapExtent" =>
    /\ MaxCountCap = U32Zero \/ U32Lt(MinCount, MaxCountCap)
         => IsSucc(img_count, MinCount)
    /\ MaxCountCap # U32Zero /\ U32Le(MaxCountCap, MinCount)
         => img_count = MaxCountCap
    /\ U32Le(MinCount, img_count)
    /\ MaxCountCap # U32Zero => U32Le(img_count, MaxCountCap)

\* m + 1 modulo 2^32
SuccMod32(m) ==
  CHOOSE r \in {U32Zero, <<m[1], m[2] + 1>>, <<m[1] + 1, 0>>} : IsSuccMod32(r, m)

\* C8 amended: with s = (minImageCount + 1) mod 2^32, the count is s when
\* maxImageCount = 0 or s <= maxImageCount, and maxImageCount when
\* 0 < maxImageCount < s; it lies in [minImageCount, maxImageCount] (0: no
\* upper bound) whenever minImageCount < 2^32 - 1 and maxImageCount is 0
\* or at least minImageCount.
C8_ImageCount ==
  pc = "chooseSwapExtent" =>
    /\ MaxCountCap = U32Zero \/ U32Le(SuccMod32(MinCount), MaxCountCap)
         => img_count = SuccMod32(MinCount)
    /\ MaxCountCap # U32Zero /\ U32Lt(MaxCountCap, SuccMod32(MinCount))
         => img_count = MaxCountCap
    /\ MinCount # UINT32_MAX /\ (MaxCountCap = U32Zero \/ U32Le(MinCount, MaxCountCap))
         => /\ U32Le(MinCount, img_count)
            /\ MaxCountCap # U32Zero => U32Le(img_count, MaxCountCap)

\* C8 witness: minImageCount = 3 and maxImageCount = 3 give exactly 3.
C8_Witness ==
  /\ pc = "chooseSwapExtent"
  /\ MinCount = U32Of(3)
  /\ MaxCountCap = U32Of(3)
  /\ img_count = U32Of(3)

(***************************************************************************)
(* choosePresentMode over every short supported list, in every order.      *)
(***************************************************************************)
PresentModes == {"Fifo", "FifoRelaxed", "Immediate", "Mailbox"}

InitPresentMode ==
  \E modes \in SeqsUpTo(PresentModes, MaxModes) \ {<<>>} :
    LET caps == SessionCaps(2, 0, E500)
    IN  InitAt("createSwapchain", <<AdapterWith(modes, caps)>>, SessionFbSize,
               GroupWith(modes, caps))

NextPresentMode == CreateSwapchain

SpecPresentMode == InitPresentMode /\ [][NextPresentMode]_vars

Supported == Range(rend_group.surf_details.present_modes)

\* C9: the present mode is mailbox if mailbox is supported, otherwise
\* immediate if immediate is supported, otherwise fifo, in whatever order
\* the modes are enumerated.
C9_PresentMode ==
  "swapchain" \in live =>
    swapchain.presentMode =
      IF "Mailbox" \in Supported THEN "Mailbox"
      ELSE IF "Immediate" \in Supported THEN "Immediate"
      ELSE "Fifo"

\* C9 witness: immediate is enumerated before mailbox; mailbox is chosen.
C9_Witness ==
  /\ "swapchain" \in live
  /\ rend_group.surf_details.present_modes = <<"Immediate", "Fifo", "Mailbox">>
  /\ swapchain.presentMode = "Mailbox"

(***************************************************************************)
(* chooseSwapExtent over current extents with and without the sentinel.    *)
(***************************************************************************)
ExtentSamples ==
  {E500, UndefinedExtent, Extent(UINT32_MAX, U32Of(500)),
   Extent(U32Of(500), UINT32_MAX), Extent(U32Of(800), U32Of(600))}

FbSamples == {<<800, 600>>, <<2000, 2000>>, <<500, 500>>, <<0, 0>>}

\* <<minImageExtent, maxImageExtent>>
ExtentBounds ==
  {<<MinExtent, MaxExtent>>,
   <<MinExtent, Extent(U32Of(4096), U32Of(4096))>>,
   <<Extent(U32Of(640), U32Of(480)), Extent(U32Of(640), U32Of(480))>>}

InitExtent ==
  \E cur \in ExtentSamples, fb \in FbSamples, b \in ExtentBounds :
    LET caps == Caps(U32Of(2), U32Zero, cur, b[1], b[2])
    IN  InitAt("chooseSwapExtent", <<AdapterWith(<<"Fifo">>, caps)>>, fb,
               GroupWith(<<"Fifo">>, caps))

NextExtent == ChooseSwapExtent

SpecExtent == InitExtent /\ [][NextExtent]_vars

ClampInt(v, lo, hi) == IF v < lo THEN lo ELSE IF v > hi THEN hi ELSE v

CurExtent == rend_group.surf_details.caps.currentExtent

\* the framebuffer size clamped componentwise into [minImageExtent,
\* maxImageExtent]
ClampedFb ==
  LET caps == rend_group.surf_details.caps
  IN  /\ U32Val(extent.width) =
           ClampInt(fb_size[1], U32Val(caps.minImageExtent.width),
                    U32Val(caps.maxImageExtent.width))
      /\ U32Val(extent.height) =
           ClampInt(fb_size[2], U32Val(caps.minImageExtent.height),
                    U32Val(caps.maxImageExtent.height))
      /\ extent.width[1] < Limb \div 2
      /\ extent.height[1] < Limb \div 2

\* C10 as stated: the extent is the clamped framebuffer size if the current
\* extent is (0xFFFFFFFF, 0xFFFFFFFF), and the current extent verbatim for
\* every other current extent.
C10_Original ==
  pc = "createSwapchain" =>
    IF CurExtent = UndefinedExtent THEN ClampedFb ELSE extent = CurExtent

\* C10 amended: the extent is the clamped framebuffer size if the current
\* extent's width is 0xFFFFFFFF (as in the undefined sentinel), and the
\* current extent verbatim for every current extent of another width.
C10_SwapExtent ==
  pc = "createSwapchain" =>
    IF CurExtent.width = UINT32_MAX THEN ClampedFb ELSE extent = CurExtent

\* C10 witness: sentinel extent, framebuffer 2000 x 2000, bounds (1,1) to
\* (1024,768): the extent is (1024,768).
C10_Witness ==
  /\ pc = "createSwapchain"
  /\ CurExtent = UndefinedExtent
  /\ fb_size = <<2000, 2000>>
  /\ rend_group.surf_details.caps.maxImageExtent = MaxExtent
  /\ extent = Extent(U32Of(1024), U32Of(768))

(***************************************************************************)
(* SpecScenario: the whole session on a machine whose only adapter is     *)
(* AdapterE, the adapter of the end-to-end scenario.                       *)
(***************************************************************************)
InitScenario == InitSession({<<AdapterE>>})

SpecScenario == InitScenario /\ [][Next]_vars

(***************************************************************************)
(* C11: once setup has completed, and in every later state, the number of *)
(* framebuffers, of image views, of swapchain images and of command        *)
(* buffers are all the same number; with minImageCount 2, no upper limit   *)
(* and a swapchain that creates exactly the requested number of images,    *)
(* that number is 3, img_count is 3 and there are 3 frame slots.           *)
(***************************************************************************)
SetupComplete == "sync" \in live \cup destroyed

RequestedScenario ==
  /\ rend_group.surf_details.caps.minImageCount = U32Of(2)
  /\ rend_group.surf_details.caps.maxImageCount = U32Zero
  /\ images = U32Val(swapchain.minImageCount)

C11_CountsAgree ==
  SetupComplete =>
    /\ framebuffers = image_views
    /\ image_views = images
    /\ Len(cmd_bufs) = images
    /\ RequestedScenario =>
          /\ N = 3
          /\ framebuffers = 3
          /\ Len(frame_inflight) = 3
          /\ Len(image_inflight) = 3

C11_Witness ==
  /\ SetupComplete
  /\ RequestedScenario
  /\ draws_done > 0
  /\ framebuffers = 3

(***************************************************************************)
(* C12: every command buffer is recorded exactly once, during setup, and   *)
(* draw() changes neither the command buffers nor the swapchain, the       *)
(* pipeline or the framebuffers: whatever the number of draw() calls, the  *)
(* command buffers hold what setup recorded (framebuffer i, one draw of 3  *)
(* vertices and 1 instance), the swapchain is the one setup created, the   *)
(* pipeline and the framebuffers exist, and after n returned draw() calls  *)
(* exactly n submissions have been made, each of the unchanged command     *)
(* buffer of its image.                                                    *)
(***************************************************************************)
RecordedOnce(i) ==
  [framebuffer |-> i, vertices |-> 3, instances |-> 1, recorded |-> 1]

CreatedSwapchain ==
  [minImageCount |-> img_count, imageFormat |-> format, imageExtent |-> extent,
   presentMode |-> choosePresentMode(rend_group.surf_details.present_modes)]

DuringDraw == pc \in DrawSteps

StaticInLoop ==
  SetupComplete =>
    /\ \A i \in 1..Len(cmd_bufs) : cmd_bufs[i] = RecordedOnce(i)
    /\ swapchain = CreatedSwapchain
    /\ framebuffers = images
    /\ pc \in LoopPcs => {"swapchain", "pipeline", "framebuffers", "cmd_pool"} \subseteq live
    /\ \A k \in 1..Len(gpu_queue) :
          gpu_queue[k].op = "submit" =>
            gpu_queue[k].cmd = RecordedOnce(gpu_queue[k].img + 1)
    /\ pc = "draw_present" => submits = draws_done + 1
    /\ pc \in DrawSteps \ {"draw_present"} => submits = draws_done
    /\ pc \in {"loop_check", "poll"} \cup TeardownSteps => submits = draws_done
    /\ submits \in {draws_done, draws_done + 1}

DrawLeavesStatic ==
  DuringDraw =>
    UNCHANGED <<cmd_bufs, swapchain, images, image_views, framebuffers, live,
                destroyed, selVars>>

C12_StaticCommandBuffers == [](StaticInLoop) /\ [][DrawLeavesStatic]_vars

C12_Witness ==
  /\ pc = "loop_check"
  /\ draws_done = 3
  /\ submits = 3
  /\ \A i \in 1..Len(cmd_bufs) : cmd_bufs[i] = RecordedOnce(i)

(***************************************************************************)
(* SpecShader: createPipeline run on every pair of shader files of up to   *)
(* MaxFileLen bytes, each of which may also be missing.                    *)
(***************************************************************************)
FileBytes == {0, 7}

FileSamples == {File(b) : b \in SeqsUpTo(FileBytes, MaxFileLen)} \cup {MissingFile}

InitShader ==
  \E v \in FileSamples, f \in FileSamples :
    InitAtWith("createPipeline", <<AdapterA>>, SessionFbSize,
               chooseRenderGroup(<<AdapterA>>, NoRenderGroup).rend_group, <<v, f>>)

NextShader == CreatePipeline

SpecShader == InitShader /\ [][NextShader]_vars

\* the file's bytes followed by zero bytes up to a multiple of 4
ZeroPadded(bytes) ==
  LET padded == ((Len(bytes) + 3) \div 4) * 4
  IN  [i \in 1..padded |-> IF i <= Len(bytes) THEN bytes[i] ELSE 0]

PipelineObjects == {"layout", "pipeline"}

PipelineBuilt == "pipeline" \in live

MissingShader == ~shader_files[1].exists \/ ~shader_files[2].exists

\* a shader file that cannot be opened is fatal, and nothing of the
\* pipeline exists then
MissingIsFatal ==
  /\ MissingShader => PipelineObjects \cap live = {}
  /\ MissingShader =>
        \/ pc = "Window"
        \/ pc \in SetupSteps /\ ~Done("createPipeline", pc)
        \/ pc = "terminated" /\ error \in SetupErrors
  /\ error = "failed to open file" => MissingShader /\ pc = "terminated"

\* C13 as stated: the loader returns the file's bytes zero-padded to a
\* multiple of 4 bytes, so the buffer length is a multiple of 4 for every
\* file length, and a missing file is a fatal error raised before any
\* pipeline object is created.
C13_Original ==
  /\ PipelineBuilt =>
        /\ vert_code = ZeroPadded(shader_files[1].bytes)
        /\ frag_code = ZeroPadded(shader_files[2].bytes)
        /\ Len(vert_code) % 4 = 0
        /\ Len(frag_code) % 4 = 0
  /\ MissingIsFatal

\* C13, amended: the loader returns exactly the file's bytes, so the buffer
\* length is the file length (a multiple of 4 only when the file length is
\* one), and a missing file is a fatal error raised before any pipeline
\* object is created.
C13_ShaderLoader ==
  /\ PipelineBuilt =>
        /\ vert_code = shader_files[1].bytes
        /\ frag_code = shader_files[2].bytes
        /\ Len(vert_code) = Len(shader_files[1].bytes)
        /\ (Len(vert_code) % 4 = 0) <=> (Len(shader_files[1].bytes) % 4 = 0)
        /\ (Len(frag_code) % 4 = 0) <=> (Len(shader_files[2].bytes) % 4 = 0)
  /\ MissingIsFatal

C13_Witness ==
  /\ PipelineBuilt
  /\ Len(shader_files[1].bytes) = 3
  /\ Len(vert_code) = 3
  /\ Len(frag_code) = 4

(***************************************************************************)
(* C14: no in-flight resource is overwritten.  When draw() submits the     *)
(* command buffer of the acquired image, no earlier submission of that     *)
(* command buffer (none that rendered into that image) is still on the     *)
(* queue, whatever images the acquire step returns and however far the     *)
(* queue has got; so no two submissions on the queue share an image.       *)
(***************************************************************************)
Pending == {k \in 1..Len(gpu_queue) : gpu_queue[k].op = "submit"}

PendingOn(img) == {k \in Pending : gpu_queue[k].img = img}

C14_NoInflightOverwrite ==
  /\ pc = "draw_submit" => PendingOn(img_idx) = {}
  /\ \A k, l \in Pending : k # l => gpu_queue[k].img # gpu_queue[l].img

\* the same, for the images that have an entry in image_inflight
C14_WithinTable ==
  /\ pc = "draw_submit" /\ img_idx < Len(image_inflight) => PendingOn(img_idx) = {}
  /\ \A k, l \in Pending :
        k # l /\ gpu_queue[k].img < Len(image_inflight) =>
          gpu_queue[k].img # gpu_queue[l].img

(***************************************************************************)
(* C15: in every draw() call the acquired image index is a valid index     *)
(* into image_inflight and into cmd_bufs, however many images the          *)
(* swapchain has created.                                                  *)
(***************************************************************************)
Acquired == pc \in {"draw_wait_image", "draw_reset", "draw_submit", "draw_present"}

C15_AcquiredIndexValid ==
  Acquired => img_idx < Len(image_inflight) /\ img_idx < Len(cmd_bufs)

\* what does hold: the index is valid for cmd_bufs
C15_CommandBufferIndexValid == Acquired => img_idx < Len(cmd_bufs)

(***************************************************************************)
(* C16: the image-in-flight table after a draw() call.                     *)
(***************************************************************************)
AfterDraw == pc \in {"loop_check", "poll"} \cup TeardownSteps

\* the fence of the slot that made the latest submission into img, or null
LastWriter(img) ==
  IF \E p \in rendered : p[1] = img
  THEN Fence((CHOOSE p \in rendered : p[1] = img)[2])
  ELSE 0

\* the image the latest submission signalling fence renders into
LatestTarget(fence) == (CHOOSE p \in targets : Fence(p[1]) = fence)[2]

\* C16 as stated: after every draw() call every entry image_inflight[i] is
\* null, for an image never rendered into, or the fence of the frame slot
\* whose most recent submission rendered into image i; no entry refers to a
\* fence whose latest submission targets a different image.
C16_Original ==
  AfterDraw =>
    \A i \in 1..Len(image_inflight) :
      IF image_inflight[i] = 0
      THEN LastWriter(i - 1) = 0
      ELSE /\ image_inflight[i] = LastWriter(i - 1)
           /\ LatestTarget(image_inflight[i]) = i - 1

\* C16, amended: after every draw() call every entry image_inflight[i] is
\* null, for an image never rendered into, or the fence of the frame slot
\* that made the most recent submission rendering into image i; that slot
\* may since have been used for another image.
C16_ImageInflightTable ==
  AfterDraw =>
    \A i \in 1..Len(image_inflight) :
      IF image_inflight[i] = 0
      THEN LastWriter(i - 1) = 0
      ELSE image_inflight[i] = LastWriter(i - 1)

C16_Witness ==
  /\ AfterDraw
  /\ \E i \in 1..Len(image_inflight) :
        /\ image_inflight[i] # 0
        /\ image_inflight[i] = LastWriter(i - 1)
        /\ LatestTarget(image_inflight[i]) # i - 1

(***************************************************************************)
(* C17: a draw() call on slot s that acquires image i does, in this order: *)
(* (1) wait on frame_inflight[s], (2) acquire, signalling                  *)
(* image_available[s], (3) wait on image_inflight[i] if set, (4) record    *)
(* frame_inflight[s] in image_inflight[i], (5) reset frame_inflight[s] and *)
(* then submit with it, (6) present waiting on render_finished[s],         *)
(* (7) advance frame_idx.  So a fence is reset only while it is signaled   *)
(* and no submission that will signal it is pending, and a fence that has  *)
(* been reset is handed to the submit call of the same draw() call.        *)
(***************************************************************************)
Protocol(s, i) ==
  << <<"wait", "frame_inflight", s>>,
     <<"acquire", "image_available", s>>,
     <<"wait_if_set", "image_inflight", i>>,
     <<"record", "image_inflight", i>>,
     <<"reset", "frame_inflight", s>>,
     <<"submit", "frame_inflight", s>>,
     <<"present", "render_finished", s>>,
     <<"advance", "frame_idx", (s + 1) % N>> >>

\* how many operations of the protocol are behind the call at each point
OpsAt ==
  [p \in DrawSteps |->
     CASE p = "draw_wait_frame" -> 0
       [] p = "draw_acquire" -> 1
       [] p = "draw_wait_image" -> 2
       [] p = "draw_reset" -> 4
       [] p = "draw_submit" -> 5
       [] p = "draw_present" -> 6]

PendingOf(slot) == {k \in Pending : gpu_queue[k].slot = slot}

SubmitFailed ==
  /\ pc = "terminated"
  /\ error = "draw call failed"
  /\ Len(ops) = 5

C17_DrawProtocol ==
  draw_calls > 0 =>
    /\ Len(ops) <= 8
    /\ ops = SubSeq(Protocol(entry_idx, img_idx), 1, Len(ops))
    /\ pc \in DrawSteps => Len(ops) = OpsAt[pc] /\ frame_idx = entry_idx
    /\ draws_done = draw_calls => Len(ops) = 8
    /\ pc = "draw_reset" =>
          Signaled(Fence(frame_idx)) /\ PendingOf(frame_idx) = {}
    /\ pc = "draw_submit" =>
          ~Signaled(Fence(frame_idx)) /\ image_available[frame_idx + 1]
    /\ \A slot \in 0..(N - 1) :
          ~Signaled(Fence(slot)) =>
            \/ PendingOf(slot) # {}
            \/ pc = "draw_submit" /\ frame_idx = slot
            \/ SubmitFailed /\ frame_idx = slot

C17_Witness ==
  /\ pc = "draw_submit"
  /\ draws_done >= 2
  /\ Len(ops) = 5
  /\ ~Signaled(Fence(frame_idx))
  /\ PendingOf(frame_idx) = {}
  /\ Pending # {}

(***************************************************************************)
(* C18: every present request of image i made on slot s waits on           *)
(* render_finished[s], and that semaphore is signaled for it by the        *)
(* submission of the same draw() call, which rendered image i, and by no   *)
(* other; so no present is executed before the rendering submitted with it *)
(* has completed, and presents are executed in the order in which their    *)
(* frames were submitted.                                                  *)
(***************************************************************************)
Presents == {k \in 1..Len(gpu_queue) : gpu_queue[k].op = "present"}

\* the queue entry at position j signals or waits on render_finished[sem]
Touches(j, sem) ==
  IF gpu_queue[j].op = "submit" THEN gpu_queue[j].signal = sem
  ELSE gpu_queue[j].wait = sem

\* the positions before k that touch render_finished[sem]
TouchesBefore(k, sem) == {j \in 1..(k - 1) : Touches(j, sem)}

\* the greatest of a non-empty set of positions
Last(S) == CHOOSE j \in S : \A i \in S : i <= j

\* position k is the n-th present request of the queue
PresentRank(k) == Cardinality({j \in Presents : j < k})

C18_PresentOrdering ==
  /\ \A k \in Presents :
        LET p == gpu_queue[k]
            before == TouchesBefore(k, p.wait)
        IN  /\ p.wait = p.slot
            /\ p.slot = p.call % N
            /\ p.call = presents_done + PresentRank(k)
            /\ IF before = {}
               THEN render_finished[p.wait + 1] = p.call + 1
               ELSE /\ gpu_queue[Last(before)].op = "submit"
                    /\ gpu_queue[Last(before)].call = p.call
                    /\ gpu_queue[Last(before)].img = p.img
  /\ \A j \in Pending :
        LET before == TouchesBefore(j, gpu_queue[j].signal)
        IN  IF before = {}
            THEN render_finished[gpu_queue[j].signal + 1] = 0
            ELSE gpu_queue[Last(before)].op = "present"
  /\ \A j, k \in Pending : j < k => gpu_queue[j].call < gpu_queue[k].call
  /\ \A j \in Pending :
        \/ \E k \in Presents : k = j + 1 /\ gpu_queue[k].call = gpu_queue[j].call
        \/ j = Len(gpu_queue) /\ gpu_queue[j].call = draws_done
  /\ presents_done <= submits - Cardinality(Pending)
  /\ presents_done <= draws_done

C18_Witness ==
  /\ presents_done >= 1
  /\ gpu_queue # <<>>
  /\ Head(gpu_queue).op = "present"
  /\ Head(gpu_queue).call = presents_done
  /\ render_finished[Head(gpu_queue).wait + 1] = Head(gpu_queue).call + 1
  /\ Pending # {}

(***************************************************************************)
(* C19: in every reachable state the number of frames submitted whose GPU  *)
(* work has not completed is at most img_count, the number of frame slots, *)
(* and each frame slot has at most one incomplete submission.              *)
(***************************************************************************)
C19_BoundedFramesInFlight ==
  SetupComplete =>
    /\ Cardinality(Pending) <= N
    /\ \A slot \in 0..(N - 1) : Cardinality(PendingOf(slot)) <= 1
    /\ \A k \in Pending : gpu_queue[k].slot < N
    /\ Cardinality(Pending) <= submits

C19_Witness ==
  /\ N = 2
  /\ Cardinality(Pending) = 2
  /\ draws_done >= 3

(***************************************************************************)
(* SpecLive: a session in which no API call fails, from the first          *)
(* statement of the Renderer constructor on.  The control thread keeps     *)
(* running and the graphics queue keeps executing its oldest operation     *)
(* whenever it can.                                                        *)
(***************************************************************************)
LiveAdapterLists == {<<AdapterA>>, <<AdapterC>>, <<AdapterE>>, <<AdapterA, AdapterB>>}

InitLive ==
  \E devs \in LiveAdapterLists :
    InitAt("createInstance", devs, SessionFbSize, NoRenderGroup)

SetupOk ==
  \/ CreateInstance
  \/ CreateSurface
  \/ ChooseRenderGroup
  \/ CreateDevice
  \/ GetQueue
  \/ ChooseSurfaceFormat
  \/ ChooseImageCount
  \/ ChooseSwapExtent
  \/ CreateSwapchain
  \/ GetSwapchainImages
  \/ CreateImageViews
  \/ CreateRenderPass
  \/ CreatePipeline
  \/ CreateFramebuffers
  \/ CreateCommandPool
  \/ AllocateCommandBuffers
  \/ RecordCommandBuffers
  \/ CreateSyncPrimitives

DrawOk ==
  \/ DrawWaitFrame
  \/ DrawAcquire
  \/ DrawWaitImage
  \/ DrawReset
  \/ DrawSubmit
  \/ DrawPresent

Control ==
  \/ SetupOk
  \/ LoopCheck
  \/ PollEvents
  \/ DrawOk
  \/ WaitIdle
  \/ DestroyStep
  \/ WindowDestroy

NextLive ==
  \/ Control
  \/ GpuComplete
  \/ GpuPresent

SpecLive ==
  /\ InitLive
  /\ [][NextLive]_vars
  /\ WF_vars(Control)
  /\ WF_vars(GpuComplete)
  /\ WF_vars(GpuPresent)

(***************************************************************************)
(* C20: when no API call fails and the queue completes what it is given,   *)
(* every draw() call returns, the first use of each slot included: the     *)
(* fence a blocking wait is waiting for is signaled or has a pending       *)
(* submission that will signal it, and a call that has been entered is     *)
(* either still under way or has returned.                                 *)
(***************************************************************************)
WaitsFor ==
  CASE pc = "draw_wait_frame" -> Fence(frame_idx)
    [] pc = "draw_wait_image" /\ img_idx < Len(image_inflight) ->
         image_inflight[img_idx + 1]
    [] OTHER -> 0

CallUnderWay == draw_calls = draws_done + 1

C20_DeadlockFree ==
  /\ WaitsFor # 0 /\ ~Signaled(WaitsFor) => PendingOf(WaitsFor - 1) # {}
  /\ CallUnderWay => pc \in DrawSteps
  /\ draw_calls \in {draws_done, draws_done + 1}

\* the same while every acquired index has an entry in image_inflight
C20_WithinTable ==
  /\ WaitsFor # 0 /\ ~Signaled(WaitsFor) => PendingOf(WaitsFor - 1) # {}
  /\ CallUnderWay /\ img_idx < Len(image_inflight) => pc \in DrawSteps

\* every call entered returns, in sessions whose swapchain has exactly the
\* requested number of images
C20_EveryCallReturns ==
  (CallUnderWay /\ images = N) ~> (draws_done = draw_calls)

=============================================================================
